---- MODULE Spec2Model ----
(***************************************************************************)
(* Mainframe Message Monitor (app.py): a Streamlit page that loads         *)
(* Firebase credentials, fetches a Firestore collection through a cached   *)
(* query function, renders a table, a CSV export and analytics, and        *)
(* re-runs itself on a wall-clock comparison.                              *)
(*                                                                         *)
(* One script run (a top-to-bottom execution of app.py) is one action.     *)
(* st.stop() and st.experimental_rerun() end the run where they are        *)
(* called; a rerun request leaves pc = "rerun" and the next run follows.   *)
(***************************************************************************)
EXTENDS Integers, Sequences, FiniteSets, TLC

VARIABLES
    secrets,          \* st.secrets["FIREBASE_SERVICE_ACCOUNT"]: its shape
    localFile,        \* serviceAccount.json on disk: its shape
    certValid,        \* whether credentials.Certificate/initialize_app accept the account
    apps,             \* firebase_admin._apps is non-empty (process-wide)
    db,               \* the Firestore database: collection name -> documents in id order
                      \* (this program only reads it)
    cache,            \* st.cache_data store of fetch_messages: key -> entry (process-wide)
    now,              \* time.time(), in whole seconds
    pc,               \* "closed" (no session yet), "idle" (run ended), "rerun" (rerun requested)
    last_refresh,     \* st.session_state["last_refresh"], NoTime while not set
    COLLECTION,       \* sidebar: Firestore collection
    limit,            \* sidebar: Documents to fetch
    refresh_seconds,  \* sidebar: Auto-refresh (secs)
    filter_label,     \* sidebar: Filter label
    show_wordcloud,   \* sidebar: Show wordcloud for critical
    ui,               \* what the latest script run did and put on the page
    untouched,        \* history: no user-triggered run since last_refresh was last set
    pressPending,     \* history: 'Refresh now' was pressed and no fetch has followed yet
    pressAt           \* history: time of that press, NoTime when none is pending

vars == <<secrets, localFile, certValid, apps, db, cache, now, pc, last_refresh,
          COLLECTION, limit, refresh_seconds, filter_label, show_wordcloud, ui,
          untouched, pressPending, pressAt>>

-----------------------------------------------------------------------------
(* Bounds of the model. The sidebar's number inputs and head(500) are      *)
(* scaled down so that small collections exercise "more fetched than       *)
(* shown" and "more stored than fetched".                                  *)

\* documents per collection
MaxDocs == 2
\* rows kept by .head(500) (src/app.py:157,159), scaled
HeadRows == 1
\* two settings of "Documents to fetch" (src/app.py:118), scaled: the larger one
\* above HeadRows, as the default 1000 is above 500
LimitSmall == 1
LimitLarge == 2
\* the clock advances in steps of TickStep seconds and stops at MaxTime
TickStep == 5
MaxTime == 15
\* a second setting of "Auto-refresh (secs)", not shorter than the cache lifetime
RefreshLong == 10

(* Program constants. *)
\* @st.cache_data(ttl=10)
TTL == 10
\* number_input("Auto-refresh (secs)", min_value=5, ...)
RefreshMin == 5
\* freq.most_common(20)
TopTokens == 20

NoTime == -1

DEFAULT_COLLECTION == "tbl_msg"
OtherCollection == "tbl_arch"
CollNames == {DEFAULT_COLLECTION, OtherCollection}
Limits == {LimitSmall, LimitLarge}
RefreshChoices == {RefreshMin, RefreshLong}
FilterChoices == {"all", "critical", "normal"}
Keys == CollNames \X Limits

-----------------------------------------------------------------------------
(* Documents. A document is a dict: a function from the field names it     *)
(* has to their values. SEQNO and TIMESTMP are positive numbers,           *)
(* predicted_label a string, TEXT a sequence of characters.                *)

\* "Job s0c7 x", "S0C7", " "
TextJob == <<"J","o","b"," ","s","0","c","7"," ","x">>
TextCode == <<"S","0","C","7">>
TextBlank == <<" ">>

DocPool ==
    { [TIMESTMP |-> 3, predicted_label |-> "critical", TEXT |-> TextJob],
      [SEQNO |-> 7, TIMESTMP |-> 1, predicted_label |-> "normal", TEXT |-> TextCode],
      [TIMESTMP |-> 2, TEXT |-> TextCode],
      [predicted_label |-> "critical"],
      [TIMESTMP |-> 1, predicted_label |-> "critical", TEXT |-> TextBlank] }

SeqsUpTo(S, n) == UNION { [1..k -> S] : k \in 0..n }

Take(s, n) == SubSeq(s, 1, IF Len(s) < n THEN Len(s) ELSE n)

\* The indices 1..n in the order of the strict total order before, a set of pairs
\* <<j, i>>: j comes before i.
SortIdx(n, before) ==
    [p \in 1..n |->
        CHOOSE i \in 1..n : Cardinality({j \in 1..n : <<j, i>> \in before}) = p - 1]

HasTs(d) == "TIMESTMP" \in DOMAIN d
\* the sort key of a row: rows without TIMESTMP (NaN) sort below every timestamp
TsKey(d) == IF HasTs(d) THEN d.TIMESTMP ELSE 0

\* d.to_dict() plus rec["_docid"] = d.id; the id is the position in the collection
DocRow(coll, i) == coll[i] @@ [_docid |-> i]
AllRows(coll) == [i \in 1..Len(coll) |-> DocRow(coll, i)]

\* db.collection(c).order_by("TIMESTMP", DESCENDING).limit(n): Firestore returns
\* only documents that have the field, by TIMESTMP descending, ties by id descending
OrderedQuery(coll, n) ==
    LET has == SelectSeq(AllRows(coll), HasTs)
        ord == SortIdx(Len(has), {ji \in (1..Len(has)) \X (1..Len(has)) :
                   \/ has[ji[1]].TIMESTMP > has[ji[2]].TIMESTMP
                   \/ has[ji[1]].TIMESTMP = has[ji[2]].TIMESTMP /\ ji[1] > ji[2]})
    IN Take([p \in 1..Len(has) |-> has[ord[p]]], n)

\* db.collection(c).limit(n): the first n documents in id order
UnorderedQuery(coll, n) == Take(AllRows(coll), n)

TypicalCols == {"SEQNO", "TIMESTMP", "JOBNAME", "MSGID", "USERID", "TEXT",
                "predicted_label", "pred_prob_critical", "_docid"}

\* pd.DataFrame(rows): the columns are the union of the rows' keys
DataFrame(rows) ==
    [cols |-> IF rows = <<>> THEN TypicalCols
              ELSE UNION {DOMAIN rows[i] : i \in 1..Len(rows)},
     rows |-> rows]
\* pd.DataFrame(): no columns, no rows
EmptyFrame == [cols |-> {}, rows |-> <<>>]

FetchErrorMsg == "Failed to fetch collection"

\* What Firestore does to one call of fetch_messages. b1: building the ordered query
\* raises; b2: building the unordered query raises; rd: reading the documents of the
\* query that was built raises.
NoFault == [b1 |-> FALSE, b2 |-> FALSE, rd |-> FALSE]
Faults ==
    { NoFault,
      [b1 |-> FALSE, b2 |-> FALSE, rd |-> TRUE],
      [b1 |-> TRUE, b2 |-> FALSE, rd |-> FALSE],
      [b1 |-> TRUE, b2 |-> FALSE, rd |-> TRUE],
      [b1 |-> TRUE, b2 |-> TRUE, rd |-> FALSE] }

\* The body of fetch_messages (the for loop over docs is outside the try blocks).
fetch_messages(coll, n, b1, b2, rd) ==
    IF ~b1 THEN
        IF rd THEN [raised |-> TRUE, df |-> EmptyFrame, err |-> FALSE,
                    queries |-> <<"ordered">>, path |-> "ordered"]
        ELSE [raised |-> FALSE, df |-> DataFrame(OrderedQuery(coll, n)), err |-> FALSE,
              queries |-> <<"ordered">>, path |-> "ordered"]
    ELSE IF ~b2 THEN
        IF rd THEN [raised |-> TRUE, df |-> EmptyFrame, err |-> FALSE,
                    queries |-> <<"ordered", "unordered">>, path |-> "fallback"]
        ELSE [raised |-> FALSE, df |-> DataFrame(UnorderedQuery(coll, n)), err |-> FALSE,
              queries |-> <<"ordered", "unordered">>, path |-> "fallback"]
    ELSE [raised |-> FALSE, df |-> EmptyFrame, err |-> TRUE,
          queries |-> <<"ordered", "unordered">>, path |-> "failed"]

-----------------------------------------------------------------------------
(* The "Latest messages" column. A frame derived from df is held as the    *)
(* sequence of its index labels: positions into df.rows.                   *)

HasCol(df, c) == c \in df.cols
Label(r) == IF "predicted_label" \in DOMAIN r THEN <<r.predicted_label>> ELSE <<>>

IndexOf(df) == [i \in 1..Len(df.rows) |-> i]

\* sort_values with ascending=True
sort_values_ascending(df) ==
    SortIdx(Len(df.rows), {ji \in (1..Len(df.rows)) \X (1..Len(df.rows)) :
        \/ TsKey(df.rows[ji[1]]) < TsKey(df.rows[ji[2]])
        \/ TsKey(df.rows[ji[1]]) = TsKey(df.rows[ji[2]]) /\ ji[1] < ji[2]})

\* df.sort_values(by='TIMESTMP', ascending=False): descending, NaN last, rows of
\* equal TIMESTMP in their order in df
sort_values(df) ==
    SortIdx(Len(df.rows), {ji \in (1..Len(df.rows)) \X (1..Len(df.rows)) :
        \/ TsKey(df.rows[ji[1]]) > TsKey(df.rows[ji[2]])
        \/ TsKey(df.rows[ji[1]]) = TsKey(df.rows[ji[2]]) /\ ji[1] < ji[2]})

\* display_df before the label filter
HeadFrame(df) ==
    IF HasCol(df, "TIMESTMP") THEN Take(sort_values(df), HeadRows)
    ELSE Take(IndexOf(df), HeadRows)

\* display_df[display_df.get('predicted_label', '') == filter_label]
LabelFilter(df, idx, flt) ==
    IF flt # "all" /\ HasCol(df, "predicted_label")
    THEN SelectSeq(idx, LAMBDA i : Label(df.rows[i]) = <<flt>>)
    ELSE idx

\* display_df with the label filter applied before .head()
display_df_filter_first(df, flt) ==
    Take(LabelFilter(df, IF HasCol(df, "TIMESTMP") THEN sort_values(df) ELSE IndexOf(df), flt),
         HeadRows)

\* lines 155-162
display_df(df, flt) == LabelFilter(df, HeadFrame(df), flt)

ShowOrder == <<"SEQNO", "TIMESTMP", "JOBNAME", "MSGID", "USERID", "predicted_label",
               "pred_prob_critical", "TEXT", "_docid">>
show_cols(df) == SelectSeq(ShowOrder, LAMBDA c : HasCol(df, c))

\* One row of a frame restricted to columns cs; a missing value is <<>>, which is
\* what both fillna("") and to_csv's na_rep='' print as the empty string.
Cells(r, cs) == [k \in 1..Len(cs) |-> IF cs[k] \in DOMAIN r THEN <<r[cs[k]]>> ELSE <<>>]

\* st.dataframe(display_df[show_cols].fillna("")): the index labels (0-based) and cells
Table(df, idx) ==
    [columns |-> show_cols(df),
     rows |-> [p \in 1..Len(idx) |->
                  [index |-> idx[p] - 1, cells |-> Cells(df.rows[idx[p]], show_cols(df))]]]

\* display_df[show_cols].to_csv(index=False): the header line, then one line per row
to_csv(df, idx) ==
    <<show_cols(df)>> \o [p \in 1..Len(idx) |-> Cells(df.rows[idx[p]], show_cols(df))]

\* CsvFrame taken before the label filter
CsvFrameUnfiltered(df, flt) == HeadFrame(df)

\* the frame the download button exports
CsvFrame(df, flt) == display_df(df, flt)

-----------------------------------------------------------------------------
(* The "Analytics" column.                                                 *)

Lower == <<"a","b","c","d","e","f","g","h","i","j","k","l","m",
           "n","o","p","q","r","s","t","u","v","w","x","y","z">>
UpperL == <<"A","B","C","D","E","F","G","H","I","J","K","L","M",
            "N","O","P","Q","R","S","T","U","V","W","X","Y","Z">>
Digits == {"0","1","2","3","4","5","6","7","8","9"}

\* str.upper() on one character
UpperCh(ch) ==
    IF \E k \in 1..Len(Lower) : Lower[k] = ch
    THEN UpperL[CHOOSE k \in 1..Len(Lower) : Lower[k] = ch]
    ELSE ch
Upper(s) == [k \in 1..Len(s) |-> UpperCh(s[k])]

\* the character class [A-Z0-9']
TokenChar(ch) == (\E k \in 1..Len(UpperL) : UpperL[k] = ch) \/ ch \in Digits \/ ch = "'"

\* re.findall(r"[A-Z0-9']+", s): the maximal runs of token characters, left to right
RECURSIVE FindAllFrom(_, _, _)
FindAllFrom(s, i, cur) ==
    IF i > Len(s) THEN (IF cur = <<>> THEN <<>> ELSE <<cur>>)
    ELSE IF TokenChar(s[i]) THEN FindAllFrom(s, i + 1, Append(cur, s[i]))
    ELSE (IF cur = <<>> THEN <<>> ELSE <<cur>>) \o FindAllFrom(s, i + 1, <<>>)
findall(s) == FindAllFrom(s, 1, <<>>)

RECURSIVE Chain(_)
\* itertools.chain.from_iterable
Chain(ss) == IF ss = <<>> THEN <<>> ELSE Head(ss) \o Chain(Tail(ss))

RECURSIVE Join(_, _)
\* sep.join(list)
Join(ss, sep) ==
    IF ss = <<>> THEN <<>>
    ELSE IF Len(ss) = 1 THEN ss[1]
    ELSE ss[1] \o sep \o Join(Tail(ss), sep)

\* str.strip() leaves something: some character is not whitespace
StripNonEmpty(s) == \E k \in 1..Len(s) : s[k] # " "

Stop == { <<"T","H","E">>, <<"A","N","D">>, <<"T","O">>, <<"O","F">>, <<"I","N">>,
          <<"I","S">>, <<"A">>, <<"A","N">>, <<"J","O","B">>, <<"S","T","E","P">>,
          <<"U","S","E","R">>, <<"M","S","G">>, <<"O","P","S">> }

Count(s, x) == Cardinality({k \in 1..Len(s) : s[k] = x})

RECURSIVE Distinct(_)
\* the distinct elements of s in the order of their first occurrence (Counter's key order)
Distinct(s) ==
    IF s = <<>> THEN <<>>
    ELSE LET d == Distinct(SubSeq(s, 1, Len(s) - 1))
         IN IF \E k \in 1..Len(d) : d[k] = s[Len(s)] THEN d ELSE Append(d, s[Len(s)])

\* Counter(ts).most_common(n): by count descending, equal counts in first-seen order
most_common(ts, n) ==
    LET ks == Distinct(ts)
        ord == SortIdx(Len(ks), {ji \in (1..Len(ks)) \X (1..Len(ks)) :
                   \/ Count(ts, ks[ji[1]]) > Count(ts, ks[ji[2]])
                   \/ Count(ts, ks[ji[1]]) = Count(ts, ks[ji[2]]) /\ ji[1] < ji[2]})
    IN Take([p \in 1..Len(ks) |-> <<ks[ord[p]], Count(ts, ks[ord[p]])>>], n)

\* astype(str) of a TEXT cell: NaN prints as "nan"
AsStr(r) == IF "TEXT" \in DOMAIN r THEN r.TEXT ELSE <<"n","a","n">>

\* the rows the label distribution is counted over
LabelRows(df, flt) == df.rows
\* df['predicted_label'].value_counts(): label -> number of rows, NaN not counted
value_counts(rows) ==
    LET ls == {rows[i].predicted_label :
                  i \in {k \in 1..Len(rows) : "predicted_label" \in DOMAIN rows[k]}}
    IN [l \in ls |-> Cardinality({i \in 1..Len(rows) : Label(rows[i]) = <<l>>})]

\* CritRows taken from the rows the label filter keeps
CritRowsOfFilter(df, flt) ==
    SelectSeq(df.rows, LAMBDA r : Label(r) = <<"critical">> /\ flt \in {"all", "critical"})

\* df[df['predicted_label']=='critical']: the rows the token chart and the word
\* cloud are computed over
CritRows(df, flt) == SelectSeq(df.rows, LAMBDA r : Label(r) = <<"critical">>)

\* crits: the upper-cased TEXT of each of the rows
CritTexts(rows) == [k \in 1..Len(rows) |-> Upper(AsStr(rows[k]))]

\* top = freq.most_common(20) over the tokens that are no stop word and longer than 1
TopTokensOf(crits) ==
    LET all_tokens == Chain([k \in 1..Len(crits) |-> findall(crits[k])])
        kept == SelectSeq(all_tokens, LAMBDA t : t \notin Stop /\ Len(t) > 1)
    IN most_common(kept, TopTokens)

NoChart == [shown |-> FALSE, data |-> <<>>]

\* The analytics of one run: raised is the KeyError of df[...]['TEXT'] when critical
\* rows exist and no fetched row has a TEXT field.
Analytics(df, flt, wc) ==
    LET hasLabel == HasCol(df, "predicted_label")
        crit == CritRows(df, flt)
        crits == CritTexts(crit)
        top == TopTokensOf(crits)
        text_concat == Join(crits, <<" ">>)
    IN IF ~hasLabel
       THEN [raised |-> FALSE, vc |-> NoChart, top |-> NoChart, cloud |-> NoChart]
       ELSE IF crit = <<>>
       THEN [raised |-> FALSE,
             vc |-> [shown |-> TRUE, data |-> value_counts(LabelRows(df, flt))],
             top |-> NoChart, cloud |-> NoChart]
       ELSE IF ~HasCol(df, "TEXT")
       THEN [raised |-> TRUE,
             vc |-> [shown |-> TRUE, data |-> value_counts(LabelRows(df, flt))],
             top |-> NoChart, cloud |-> NoChart]
       ELSE [raised |-> FALSE,
             vc |-> [shown |-> TRUE, data |-> value_counts(LabelRows(df, flt))],
             top |-> IF top # <<>> THEN [shown |-> TRUE, data |-> top] ELSE NoChart,
             cloud |-> IF wc /\ StripNonEmpty(text_concat)
                       THEN [shown |-> TRUE, data |-> text_concat] ELSE NoChart]

-----------------------------------------------------------------------------
(* Credentials.                                                            *)

SecretShapes == {"absent", "dict", "json", "bad_json", "null_json"}
FileShapes == {"absent", "ok", "unreadable"}

ParseErrorMsg == "Failed to parse FIREBASE_SERVICE_ACCOUNT JSON from Streamlit secrets."
ReadErrorMsg == "Failed to read local serviceAccount.json."
MissingErrorMsg == "Service account JSON not found in Streamlit secrets or serviceAccount.json file. See README."
InitErrorMsg == "Failed to initialize Firebase app"

\* FromSecrets without the st.stop() of the except branch: the run goes on to the
\* local file
FromSecretsNoStop(s) ==
    IF s \in {"dict", "json"} THEN [stop |-> FALSE, sa |-> TRUE]
    ELSE [stop |-> FALSE, sa |-> FALSE]

\* Step 1: the secrets entry. sa: a service account was obtained; stop: st.error
\* and st.stop() were called. json.loads of the text "null" returns None.
FromSecrets(s) ==
    CASE s = "absent" -> [stop |-> FALSE, sa |-> FALSE]
      [] s = "dict" -> [stop |-> FALSE, sa |-> TRUE]
      [] s = "json" -> [stop |-> FALSE, sa |-> TRUE]
      [] s = "null_json" -> [stop |-> FALSE, sa |-> FALSE]
      [] s = "bad_json" -> [stop |-> TRUE, sa |-> FALSE]

\* Step 2: the local file, tried only when step 1 gave nothing
FromFile(f) ==
    CASE f = "absent" -> [stop |-> FALSE, sa |-> FALSE]
      [] f = "ok" -> [stop |-> FALSE, sa |-> TRUE]
      [] f = "unreadable" -> [stop |-> TRUE, sa |-> FALSE]

\* ok: the function returned the app; otherwise msg was shown and the run stopped
init_firestore_from_secrets(a, s, f, cv) ==
    IF a THEN [ok |-> TRUE, msg |-> "", apps |-> TRUE]
    ELSE IF FromSecrets(s).stop THEN [ok |-> FALSE, msg |-> ParseErrorMsg, apps |-> FALSE]
    ELSE IF ~FromSecrets(s).sa /\ FromFile(f).stop
         THEN [ok |-> FALSE, msg |-> ReadErrorMsg, apps |-> FALSE]
    ELSE IF ~FromSecrets(s).sa /\ ~FromFile(f).sa
         THEN [ok |-> FALSE, msg |-> MissingErrorMsg, apps |-> FALSE]
    ELSE IF ~cv THEN [ok |-> FALSE, msg |-> InitErrorMsg, apps |-> FALSE]
    ELSE [ok |-> TRUE, msg |-> "", apps |-> TRUE]

-----------------------------------------------------------------------------
(* The cache of fetch_messages.                                            *)

\* path (history): the branch of fetch_messages that produced the entry
NoEntry == [at |-> NoTime, df |-> EmptyFrame, err |-> FALSE, path |-> "none"]

\* fetch_messages.clear()
ClearedCache == [k \in Keys |-> NoEntry]

\* ttl=10: an entry is served while it is younger than the lifetime
Fresh(e, t) == e.at # NoTime /\ t - e.at < TTL

\* the store drops the entries whose lifetime is over
Evict(cch, t) == [k \in Keys |-> IF Fresh(cch[k], t) THEN cch[k] ELSE NoEntry]

\* A call fetch_messages(collection=c, limit=n) through st.cache_data at time t.
\* A hit returns the stored frame (and replays the stored st.error); a miss runs
\* the body and stores what it returns; a raising body stores nothing.
CachedFetch(cch, coll, t, c, n, b1, b2, rd) ==
    LET e == cch[<<c, n>>]
        r == fetch_messages(coll, n, b1, b2, rd)
    IN IF Fresh(e, t)
       THEN [src |-> "cache", raised |-> FALSE, df |-> e.df, err |-> e.err,
             queries |-> <<>>, path |-> e.path, at |-> e.at, cache |-> cch]
       ELSE [src |-> "db", raised |-> r.raised, df |-> r.df, err |-> r.err,
             queries |-> r.queries, path |-> r.path, at |-> t,
             cache |-> IF r.raised THEN cch
                       ELSE [cch EXCEPT ![<<c, n>>] =
                                [at |-> t, df |-> r.df, err |-> r.err, path |-> r.path]]]

\* OnRefreshNow without the clear
OnRefreshNowKeep(cch) == cch

\* "Refresh now": fetch_messages.clear()
OnRefreshNow(cch) == ClearedCache

\* AutoRefreshDue with >= for >
AutoRefreshDueAtInterval(t, lr, rs) == t - lr >= rs

\* now - st.session_state["last_refresh"] > int(refresh_seconds)
AutoRefreshDue(t, lr, rs) == t - lr > rs

-----------------------------------------------------------------------------
(* One script run.                                                         *)

NoTable == [columns |-> <<>>, rows |-> <<>>]

\* outcome: "halted" (st.stop), "rerun" (st.experimental_rerun), "crashed" (an
\* exception left the script, raisedIn says where), "rendered" (the script reached
\* its end). History of the run: fault (what Firestore did to the fetch), forced
\* (the fetch was the first after a "Refresh now" press, made at pressedAt).
BlankUi ==
    [outcome |-> "none", raisedIn |-> "none", errors |-> {}, client |-> FALSE,
     button |-> FALSE, fault |-> NoFault, forced |-> FALSE, pressedAt |-> NoTime,
     queries |-> <<>>, src |-> "none", path |-> "none", at |-> NoTime,
     metric |-> -1, df |-> EmptyFrame, info |-> FALSE, table |-> NoTable, csv |-> <<>>,
     vc |-> NoChart, top |-> NoChart, cloud |-> NoChart, caption |-> FALSE]

\* lines 144-199 for the outcome f of the fetch
Render(f, flt, wc) ==
    IF f.raised
    THEN [BlankUi EXCEPT !.outcome = "crashed", !.raisedIn = "fetch", !.client = TRUE,
                         !.queries = f.queries,
                         !.src = f.src, !.path = f.path, !.at = f.at]
    ELSE LET df == f.df
             empty == df.rows = <<>> \/ df.cols = {}
             an == Analytics(df, flt, wc)
         IN [outcome |-> IF an.raised THEN "crashed" ELSE "rendered",
             raisedIn |-> IF an.raised THEN "analytics" ELSE "none",
             errors |-> IF f.err THEN {FetchErrorMsg} ELSE {},
             client |-> TRUE, button |-> FALSE,
             fault |-> NoFault, forced |-> FALSE, pressedAt |-> NoTime,
             queries |-> f.queries, src |-> f.src, path |-> f.path, at |-> f.at,
             metric |-> Len(df.rows), df |-> df, info |-> empty,
             table |-> IF empty THEN NoTable ELSE Table(df, display_df(df, flt)),
             csv |-> IF empty THEN <<>> ELSE to_csv(df, CsvFrame(df, flt)),
             vc |-> an.vc, top |-> an.top, cloud |-> an.cloud,
             caption |-> ~an.raised]

\* A run of app.py with the sidebar set to (c, n, rs, flt, wc); btn: the run was
\* triggered by pressing "Refresh now".
Script(btn, c, n, rs, flt, wc) ==
    LET cred == init_firestore_from_secrets(apps, secrets, localFile, certValid)
        lr == IF last_refresh = NoTime THEN now ELSE last_refresh
    IN /\ COLLECTION' = c
       /\ limit' = n
       /\ refresh_seconds' = rs
       /\ filter_label' = flt
       /\ show_wordcloud' = wc
       /\ apps' = cred.apps
       /\ UNCHANGED <<secrets, localFile, certValid, db, now>>
       /\ IF ~cred.ok
          THEN /\ ui' = [BlankUi EXCEPT !.outcome = "halted", !.errors = {cred.msg},
                                        !.button = btn]
               /\ pc' = "idle"
               /\ UNCHANGED <<cache, last_refresh, pressPending, pressAt>>
          ELSE IF btn
          THEN /\ cache' = OnRefreshNow(cache)
               /\ ui' = [BlankUi EXCEPT !.outcome = "rerun", !.client = TRUE,
                                        !.button = TRUE]
               /\ pc' = "rerun"
               /\ pressPending' = TRUE
               /\ pressAt' = now
               /\ UNCHANGED last_refresh
          ELSE IF AutoRefreshDue(now, lr, rs)
          THEN /\ last_refresh' = now
               /\ cache' = ClearedCache
               /\ ui' = [BlankUi EXCEPT !.outcome = "rerun", !.client = TRUE]
               /\ pc' = "rerun"
               /\ UNCHANGED <<pressPending, pressAt>>
          ELSE /\ last_refresh' = lr
               /\ \E x \in (IF Fresh(cache[<<c, n>>], now) THEN {NoFault} ELSE Faults) :
                     LET f == CachedFetch(cache, db[c], now, c, n, x.b1, x.b2, x.rd)
                     IN /\ cache' = f.cache
                        /\ ui' = [Render(f, flt, wc) EXCEPT
                                     !.fault = x, !.forced = pressPending,
                                     !.pressedAt = pressAt]
               /\ pc' = "idle"
               /\ pressPending' = FALSE
               /\ pressAt' = NoTime

\* the latest run put the sidebar on the page
SidebarShown == ui.outcome \in {"rendered", "crashed"}

\* the sidebar's defaults (value=1000, value=20), scaled
DefaultLimit == LimitLarge
DefaultRefresh == RefreshLong

\* the first run of the session
OpenPage ==
    /\ pc = "closed"
    /\ Script(FALSE, DEFAULT_COLLECTION, DefaultLimit, DefaultRefresh, "all", TRUE)
    /\ untouched' = (last_refresh' = now)

\* the user sets sidebar widgets (or clicks the download button): a run follows
UserInput(Cs, Ls, Rs, Fs, Ws) ==
    /\ pc = "idle"
    /\ SidebarShown
    /\ \E c \in Cs, n \in Ls, rs \in Rs, flt \in Fs, wc \in Ws :
          Script(FALSE, c, n, rs, flt, wc)
    /\ untouched' = (last_refresh' = now)

\* the user presses "Refresh now"
RefreshNow ==
    /\ pc = "idle"
    /\ SidebarShown
    /\ Script(TRUE, COLLECTION, limit, refresh_seconds, filter_label, show_wordcloud)
    /\ untouched' = FALSE

\* the run that st.experimental_rerun() asked for
Rerun ==
    /\ pc = "rerun"
    /\ Script(FALSE, COLLECTION, limit, refresh_seconds, filter_label, show_wordcloud)
    /\ untouched' = (untouched \/ last_refresh' # last_refresh)

\* time passes
Tick ==
    /\ now + TickStep <= MaxTime
    /\ now' = now + TickStep
    /\ cache' = Evict(cache, now')
    /\ UNCHANGED <<secrets, localFile, certValid, apps, db, pc, last_refresh,
                   COLLECTION, limit, refresh_seconds, filter_label, show_wordcloud, ui,
                   untouched, pressPending, pressAt>>

InitSession ==
    /\ apps = FALSE
    /\ cache = ClearedCache
    /\ now = 0
    /\ pc = "closed"
    /\ last_refresh = NoTime
    /\ COLLECTION = DEFAULT_COLLECTION
    /\ limit = DefaultLimit
    /\ refresh_seconds = DefaultRefresh
    /\ filter_label = "all"
    /\ show_wordcloud = TRUE
    /\ ui = BlankUi
    /\ untouched = FALSE
    /\ pressPending = FALSE
    /\ pressAt = NoTime

\* The page over time: a fixed small database, credentials that work or do not.
TimedDocs ==
    << [TIMESTMP |-> 1, predicted_label |-> "normal", TEXT |-> TextCode],
       [TIMESTMP |-> 3, predicted_label |-> "critical", TEXT |-> TextJob] >>

Init ==
    /\ secrets \in {"dict", "bad_json"}
    /\ localFile = "absent"
    /\ certValid = TRUE
    /\ db = [c \in CollNames |-> IF c = DEFAULT_COLLECTION THEN TimedDocs ELSE <<>>]
    /\ InitSession

Input == UserInput(CollNames, Limits, RefreshChoices, {"all"}, {TRUE})

Next == OpenPage \/ Input \/ RefreshNow \/ Rerun \/ Tick

Spec == Init /\ [][Next]_vars

\* The render pass over every small collection: working credentials, no clock.
InitRender ==
    /\ secrets = "dict"
    /\ localFile = "absent"
    /\ certValid = TRUE
    /\ db \in [CollNames -> SeqsUpTo(DocPool, MaxDocs)]
    /\ db[OtherCollection] = <<>>
    /\ InitSession

InputRender == UserInput({DEFAULT_COLLECTION}, Limits, {DefaultRefresh}, FilterChoices, BOOLEAN)

NextRender == OpenPage \/ InputRender \/ RefreshNow \/ Rerun

SpecRender == InitRender /\ [][NextRender]_vars

\* Credential loading in every environment: the default collection, no clock.
InitCred ==
    /\ secrets \in SecretShapes
    /\ localFile \in FileShapes
    /\ certValid \in BOOLEAN
    /\ db = [c \in CollNames |-> IF c = DEFAULT_COLLECTION THEN TimedDocs ELSE <<>>]
    /\ InitSession

InputCred == UserInput({DEFAULT_COLLECTION}, Limits, {DefaultRefresh}, FilterChoices, {TRUE})

NextCred == OpenPage \/ InputCred \/ RefreshNow \/ Rerun

SpecCred == InitCred /\ [][NextCred]_vars

-----------------------------------------------------------------------------
(* Properties.                                                             *)

\* a step that is a script run (only Tick moves the clock)
RunStep == now' = now /\ vars' # vars
\* the latest run called fetch_messages and its body ran
BodyRan == ui.src = "db"

\* C1: in every call of fetch_messages, a failing ordered query is followed by
\* exactly one unordered query; when that fails too the call returns the empty
\* frame with an error message and queries no further; and no query failure,
\* whether in building the query or in reading its documents, leaves
\* fetch_messages as an exception.
C1_QueryFailuresHandled ==
    BodyRan =>
        LET orderedFailed == ui.fault.b1 \/ ui.fault.rd
            bothFailed == ui.fault.b1 /\ (ui.fault.b2 \/ ui.fault.rd)
        IN /\ ui.raisedIn # "fetch"
           /\ orderedFailed => ui.queries = <<"ordered", "unordered">>
           /\ ~orderedFailed => ui.queries = <<"ordered">>
           /\ bothFailed => /\ ui.df = EmptyFrame
                            /\ FetchErrorMsg \in ui.errors

\* the credential environment makes init_firestore_from_secrets fail, and why
NothingInSecrets == secrets \in {"absent", "null_json"}
LoadFailure ==
    IF secrets = "bad_json" THEN ParseErrorMsg
    ELSE IF NothingInSecrets /\ localFile = "unreadable" THEN ReadErrorMsg
    ELSE IF NothingInSecrets /\ localFile = "absent" THEN MissingErrorMsg
    ELSE IF ~certValid THEN InitErrorMsg
    ELSE ""

\* C2: on every page run in an environment where credential loading fails
\* (unparseable secrets entry, unreadable local file, no service account in either
\* place, or an account Firebase rejects), the matching error message is shown and
\* the run halts: no Firestore client, no query, no cache entry, nothing of the
\* main UI.
C2_CredentialFailureHalts ==
    (pc # "closed" /\ LoadFailure # "") =>
        /\ ui.outcome = "halted"
        /\ ui.errors = {LoadFailure}
        /\ ~ui.client
        /\ ~apps
        /\ ui.queries = <<>> /\ ui.src = "none"
        /\ cache = ClearedCache
        /\ last_refresh = NoTime
        /\ ui.metric = -1 /\ ui.table = NoTable /\ ui.csv = <<>> /\ ~ui.info
        /\ ~ui.vc.shown /\ ~ui.top.shown /\ ~ui.cloud.shown /\ ~ui.caption

\* C2 witness: a run halted because the account found in the local file is rejected
C2_Witness ==
    /\ pc = "idle" /\ ui.outcome = "halted"
    /\ secrets = "null_json" /\ localFile = "ok" /\ ~certValid
    /\ ui.errors = {InitErrorMsg}

\* C3: a page left open with no user interaction refreshes itself every
\* refresh_seconds: once the page has been idle and untouched since its last
\* refresh for the interval and one more clock step, the refresh has happened.
C3_AutoRefreshWhenLeftOpen ==
    (pc = "idle" /\ ui.outcome = "rendered" /\ untouched) =>
        now - last_refresh < refresh_seconds + TickStep

\* C4: pressing "Refresh now" clears the cache and asks for a rerun, and the first
\* fetch_messages call after the press runs the query against the database: it
\* never returns an entry stored before the press, for every collection, limit and
\* age of the entry.
C4_RefreshNowForcesFetch ==
    /\ (pressPending /\ pc = "rerun") => cache = ClearedCache
    /\ ui.button => (ui.outcome = "rerun" /\ pc = "rerun" /\ pressPending)
    /\ ui.forced => /\ ui.src = "db"
                    /\ ui.queries # <<>>
                    /\ ui.at >= ui.pressedAt

\* C4 witness: a fetch forced by a press at a time when an entry stored before the
\* press would still be fresh, for a key other than the default one
C4_Witness ==
    /\ ui.forced /\ ui.outcome = "rendered"
    /\ ui.pressedAt = now /\ now > 0
    /\ COLLECTION = OtherCollection /\ limit = LimitSmall

\* C9: last_refresh is set to now by the first run that gets past credential
\* loading; afterwards it changes only in a run with
\* now - last_refresh > refresh_seconds, which sets it to now, clears the cache and
\* asks for a rerun; every other run, and a "Refresh now" press, leaves it as it
\* is. It never decreases and never exceeds the current time.
C9_LastRefreshFrame ==
    [][ /\ last_refresh' >= last_refresh
        /\ last_refresh' <= now'
        /\ (pc = "closed" /\ RunStep /\ ui'.outcome # "halted") => last_refresh' = now
        /\ (last_refresh # NoTime /\ last_refresh' # last_refresh) =>
              /\ now - last_refresh > refresh_seconds'
              /\ last_refresh' = now
              /\ cache' = ClearedCache
              /\ pc' = "rerun"
        /\ (last_refresh # NoTime /\ RunStep /\ ~ui'.button
               /\ now - last_refresh > refresh_seconds') => last_refresh' = now
        /\ (RunStep /\ ui'.button) => last_refresh' = last_refresh
      ]_vars

\* C9 witness: an auto-refresh has just restarted the interval
C9_Witness ==
    /\ pc = "rerun" /\ ~ui.button /\ ui.outcome = "rerun"
    /\ last_refresh = now /\ now > 0

\* What the cache does for a call whose body returns: a call whose key has an
\* entry younger than TTL returns the stored frame without a query and leaves the
\* cache as it is; a call whose key has no entry (never stored, cleared, or
\* expired) queries the database, and what the body returns, the empty frame of a
\* failed fetch included, is stored under the key with the time of the call; a
\* body that raises stores nothing.
CacheServesWhatWasStored ==
    [][ (RunStep /\ ui'.src # "none") =>
            LET k == <<COLLECTION', limit'>>
                e == cache[k]
            IN /\ (e.at # NoTime /\ now - e.at < TTL) =>
                     /\ ui'.src = "cache"
                     /\ ui'.queries = <<>>
                     /\ ui'.df = e.df /\ ui'.at = e.at
                     /\ cache' = cache
               /\ (e.at = NoTime \/ now - e.at >= TTL) =>
                     /\ ui'.src = "db"
                     /\ ui'.queries # <<>>
                     /\ \A j \in Keys \ {k} : cache'[j] = cache[j]
                     /\ ui'.raisedIn = "fetch" => cache'[k] = cache[k]
                     /\ ui'.raisedIn # "fetch" =>
                           /\ cache'[k].at = now
                           /\ cache'[k].df = ui'.df
                     /\ (ui'.fault.b1 /\ ui'.fault.b2) =>
                           /\ cache'[k].df = EmptyFrame
                           /\ cache'[k].err
      ]_vars

\* C10: fetch_messages is cached per (collection, limit) for TTL seconds: a call
\* made less than TTL seconds after the call that queried the database with the
\* same arguments, with no cache clear in between, returns the stored result
\* without a query; a call whose entry has expired or was cleared queries the
\* database again; the empty frame of a failed fetch is stored like any result.
C10_CachedForLifetime ==
    [][ (RunStep /\ ui'.src # "none") =>
            LET k == <<COLLECTION', limit'>>
                e == cache[k]
            IN /\ (ui.src = "db" /\ k = <<COLLECTION, limit>> /\ now - ui.at < TTL) =>
                     /\ ui'.src = "cache"
                     /\ ui'.queries = <<>>
               /\ (e.at # NoTime /\ now - e.at < TTL) =>
                     /\ ui'.src = "cache"
                     /\ ui'.queries = <<>>
                     /\ ui'.df = e.df
               /\ (e.at = NoTime \/ now - e.at >= TTL) =>
                     /\ ui'.src = "db"
                     /\ ui'.queries # <<>>
               /\ (ui'.src = "db" /\ ui'.fault.b1 /\ ui'.fault.b2) =>
                     cache'[k].df = EmptyFrame
      ]_vars

\* the records shown in the table, top to bottom
Shown == [p \in 1..Len(ui.table.rows) |-> ui.df.rows[ui.table.rows[p].index + 1]]
ShownIds == {Shown[p]._docid : p \in 1..Len(Shown)}
\* a non-empty table was fetched and shown
TableShown == ui.metric > 0

NonIncreasing ==
    \A p, q \in 1..Len(Shown) :
        (p < q /\ HasTs(Shown[p]) /\ HasTs(Shown[q])) =>
            Shown[p].TIMESTMP >= Shown[q].TIMESTMP
\* no record among rows that is not displayed is newer than a displayed one
NoNewerHidden(rows) ==
    \A i \in 1..Len(rows) :
        (rows[i]._docid \notin ShownIds /\ HasTs(rows[i])) =>
            \A p \in 1..Len(Shown) :
                HasTs(Shown[p]) => rows[i].TIMESTMP <= Shown[p].TIMESTMP

CriticalOnly(rows) ==
    SelectSeq(rows, LAMBDA r : "predicted_label" \in DOMAIN r /\ r.predicted_label = "critical")
LabelCounts(rows) ==
    LET has(l) == {i \in 1..Len(rows) :
                      "predicted_label" \in DOMAIN rows[i] /\ rows[i].predicted_label = l}
    IN [l \in {x \in {"critical", "normal"} : has(x) # {}} |-> Cardinality(has(l))]
ExpectedTop == TopTokensOf(CritTexts(CriticalOnly(ui.df.rows)))
ExpectedCloud == Join(CritTexts(CriticalOnly(ui.df.rows)), <<" ">>)

\* C7 as claimed: every analytic rendered (label distribution, token frequency,
\* word cloud) is computed over only the fetched records whose predicted_label is
\* "critical", whatever the label filter.
C7_AnalyticsOverCritical ==
    /\ ui.vc.shown => ui.vc.data = LabelCounts(CriticalOnly(ui.df.rows))
    /\ ui.top.shown => ui.top.data = ExpectedTop
    /\ ui.cloud.shown => ui.cloud.data = ExpectedCloud

\* C7 as amended: the token frequency and the word cloud are computed over only
\* the fetched records whose predicted_label is "critical"; the label distribution
\* counts all fetched records by label; each is shown when the fetched table
\* alone says so, whatever the label filter.
C7_TokensOverCriticalCountsOverAll ==
    ui.metric >= 0 =>
        LET crit == CriticalOnly(ui.df.rows)
            texts == HasCol(ui.df, "TEXT")
        IN /\ ui.vc.shown <=> HasCol(ui.df, "predicted_label")
           /\ ui.vc.shown => ui.vc.data = LabelCounts(ui.df.rows)
           /\ ui.top.shown <=> (crit # <<>> /\ texts /\ ExpectedTop # <<>>)
           /\ ui.top.shown => ui.top.data = ExpectedTop
           /\ ui.cloud.shown <=>
                 (crit # <<>> /\ texts /\ show_wordcloud /\ StripNonEmpty(ExpectedCloud))
           /\ ui.cloud.shown => ui.cloud.data = ExpectedCloud

\* C7 witness: all three analytics shown while the table is filtered to 'normal'
\* and normal rows were fetched
C7_Witness ==
    /\ ui.vc.shown /\ ui.top.shown /\ ui.cloud.shown
    /\ filter_label = "normal"
    /\ "normal" \in DOMAIN ui.vc.data

\* C8: on every run with a non-empty fetched table that has a predicted_label
\* column, at most HeadRows rows are displayed, and they are exactly the rows
\* matching the filter ('all' matches every row) among the HeadRows newest fetched
\* rows: a matching row outside those is never displayed.
C8_FilterWithinNewestRows ==
    (TableShown /\ HasCol(ui.df, "predicted_label")) =>
        LET rows == ui.df.rows
            n == Len(rows)
            m == IF n < HeadRows THEN n ELSE HeadRows
            shown == {ui.table.rows[p].index + 1 : p \in 1..Len(ui.table.rows)}
            Match(i) ==
                \/ filter_label = "all"
                \/ "predicted_label" \in DOMAIN rows[i]
                      /\ rows[i].predicted_label = filter_label
        IN /\ Len(ui.table.rows) <= HeadRows
           /\ Cardinality(shown) = Len(ui.table.rows)
           /\ \E S \in SUBSET (1..n) :
                 /\ Cardinality(S) = m
                 /\ \A i \in S, j \in (1..n) \ S : TsKey(rows[j]) <= TsKey(rows[i])
                 /\ shown = {i \in S : Match(i)}

\* C8 witness: more rows fetched than are kept, a fetched row matches the filter,
\* and nothing is displayed
C8_Witness ==
    /\ TableShown /\ HasCol(ui.df, "predicted_label")
    /\ ui.metric > HeadRows /\ filter_label = "normal"
    /\ ui.table.rows = <<>>
    /\ \E i \in 1..Len(ui.df.rows) : Label(ui.df.rows[i]) = <<"normal">>

====
